---- MODULE Spec2Model ----
(***************************************************************************)
(* Model of Yolo/utils/model.py: download of a pretrained SSD model, the   *)
(* path-checked extraction of its archive, and the graphsurgeon rewrite of *)
(* its frozen graph before the UFF conversion.                             *)
(*                                                                         *)
(* Strings are sequences of tokens.  Paths use one token per character;    *)
(* node names use "/" as a token of its own and multi-character tokens for *)
(* the rest ("concat_1" is <<"concat", "_1">>), so that splitting on "/",  *)
(* prefix tests and normalisation are computed, not assumed.               *)
(***************************************************************************)
EXTENDS Integers, Sequences, FiniteSets, TLC

VARIABLES
    pc,              \* position in prepare_ssd_model
    model_name,      \* argument of prepare_ssd_model
    cwd,             \* os.getcwd(), read by os.path.abspath
    model_dir,       \* PATHS.get_models_dir_path()
    dir_exists,      \* os.path.exists(model_dir)
    archive,         \* state of the file model_archive_path
    tar,             \* member names of the downloaded archive
    extracted,       \* resolved destination of every member written to disk
    error,           \* exception that ended the run, "none" if none
    steps,           \* the steps executed so far, in order
    loaded,          \* graph as read by gs.DynamicGraph(model_path)
    graph,           \* ssd_graph, mutated in place
    removed,         \* argument given to ssd_graph.remove
    uff_written      \* uff.from_tensorflow wrote output_uff_path

vars == <<pc, model_name, cwd, model_dir, dir_exists, archive, tar, extracted,
          error, steps, loaded, graph, removed, uff_written>>

-----------------------------------------------------------------------------
(* Bounds *)

MaxMembers == 2
MaxNameLen == 4
MaxGraphNodes == 3
MaxEdges == 2
MaxOrderNodes == 2

-----------------------------------------------------------------------------
(* String helpers (Python str and list operations) *)

Last(s) == s[Len(s)]

ButLast(s) == SubSeq(s, 1, Len(s) - 1)

startswith(s, p) == Len(p) <= Len(s) /\ SubSeq(s, 1, Len(p)) = p

endswith(s, p) == Len(p) <= Len(s) /\ SubSeq(s, Len(s) - Len(p) + 1, Len(s)) = p

RECURSIVE SplitAcc(_, _, _)
SplitAcc(s, cur, acc) ==
    IF s = <<>> THEN Append(acc, cur)
    ELSE IF Head(s) = "/" THEN SplitAcc(Tail(s), <<>>, Append(acc, cur))
    ELSE SplitAcc(Tail(s), Append(cur, Head(s)), acc)

\* s.split('/')
split(s) == SplitAcc(s, <<>>, <<>>)

RECURSIVE slashjoin(_)
\* '/'.join(comps)
slashjoin(comps) ==
    IF comps = <<>> THEN <<>>
    ELSE IF Len(comps) = 1 THEN comps[1]
    ELSE comps[1] \o <<"/">> \o slashjoin(Tail(comps))

\* ord() of the path characters
ord(c) == CASE c = "." -> 46 [] c = "/" -> 47 [] c = "b" -> 98 [] c = "c" -> 99

RECURSIVE StrLess(_, _)
\* s < t on Python strings
StrLess(s, t) ==
    IF t = <<>> THEN FALSE
    ELSE IF s = <<>> THEN TRUE
    ELSE IF Head(s) = Head(t) THEN StrLess(Tail(s), Tail(t))
    ELSE ord(Head(s)) < ord(Head(t))

-----------------------------------------------------------------------------
(* posixpath *)

isabs(s) == startswith(s, <<"/">>)

\* os.path.join(a, b)
join(a, b) ==
    IF isabs(b) THEN b
    ELSE IF a = <<>> \/ endswith(a, <<"/">>) THEN a \o b
    ELSE a \o <<"/">> \o b

initial_slashes(path) ==
    IF ~isabs(path) THEN 0
    ELSE IF startswith(path, <<"/", "/">>) /\ ~startswith(path, <<"/", "/", "/">>) THEN 2
    ELSE 1

RECURSIVE new_comps(_, _, _)
\* the loop of normpath over path.split('/')
new_comps(comps, acc, init) ==
    IF comps = <<>> THEN acc
    ELSE LET comp == Head(comps) IN
         IF comp = <<>> \/ comp = <<".">> THEN new_comps(Tail(comps), acc, init)
         ELSE IF \/ comp # <<".", ".">>
                 \/ (init = 0 /\ acc = <<>>)
                 \/ (acc # <<>> /\ Last(acc) = <<".", ".">>)
              THEN new_comps(Tail(comps), Append(acc, comp), init)
         ELSE IF acc # <<>> THEN new_comps(Tail(comps), ButLast(acc), init)
         ELSE new_comps(Tail(comps), acc, init)

normpath(path) ==
    IF path = <<>> THEN <<".">>
    ELSE LET init == initial_slashes(path)
             body == slashjoin(new_comps(split(path), <<>>, init))
             p == [i \in 1..init |-> "/"] \o body
         IN  IF p = <<>> THEN <<".">> ELSE p

\* os.path.abspath(path) with os.getcwd() = wd
abspath(path, wd) == normpath(IF isabs(path) THEN path ELSE join(wd, path))

\* os.path.commonprefix([a, b]): compares min and max character by character
commonprefix(a, b) ==
    LET s1 == IF StrLess(b, a) THEN b ELSE a
        s2 == IF StrLess(b, a) THEN a ELSE b
        diff == {i \in 1..Len(s1) : i > Len(s2) \/ s1[i] # s2[i]}
    IN  IF diff = {} THEN s1
        ELSE SubSeq(s1, 1, (CHOOSE i \in diff : \A j \in diff : i <= j) - 1)

\* mutant: the prefix must end at a path separator
is_within_directory_sep(directory, target, wd) ==
    LET abs_directory == abspath(directory, wd) \o <<"/">>
        abs_target == abspath(target, wd)
        prefix == commonprefix(abs_directory, abs_target)
    IN  prefix = abs_directory

is_within_directory(directory, target, wd) ==
    LET abs_directory == abspath(directory, wd)
        abs_target == abspath(target, wd)
        prefix == commonprefix(abs_directory, abs_target)
    IN  prefix = abs_directory

\* the member check of safe_extract
member_ok(path, name, wd) == is_within_directory(path, join(path, name), wd)

\* where tar.extractall(path) writes the member called name
destination(path, name, wd) == abspath(join(path, name), wd)

-----------------------------------------------------------------------------
(* safe_extract *)

\* mutant: each member is extracted as soon as it has passed its own check
safe_extract_interleaved(path, members, wd) ==
    LET bad == {i \in 1..Len(members) : ~member_ok(path, members[i], wd)}
        first == IF bad = {} THEN Len(members) + 1
                 ELSE CHOOSE i \in bad : \A j \in bad : i <= j
    IN  [raised |-> bad # {},
         written |-> [i \in 1..(first - 1) |-> destination(path, members[i], wd)]]

\* safe_extract(tar, path): every member is checked before tar.extractall runs
safe_extract(path, members, wd) ==
    IF \E i \in 1..Len(members) : ~member_ok(path, members[i], wd)
    THEN [raised |-> TRUE, written |-> <<>>]
    ELSE [raised |-> FALSE,
          written |-> [i \in 1..Len(members) |-> destination(path, members[i], wd)]]

-----------------------------------------------------------------------------
(* Graph: a list of nodes [name, op, input], as in a GraphDef *)

Range(s) == {s[i] : i \in 1..Len(s)}

Min(a, b) == IF a < b THEN a ELSE b

create_plugin_node(name, op) == [name |-> name, op |-> op, input |-> <<>>]

Input == create_plugin_node(<<"Input">>, "Placeholder")

PriorBox == create_plugin_node(<<"GridAnchor">>, "GridAnchor_TRT")

NMS == create_plugin_node(<<"NMS">>, "NMS_TRT")

concat_priorbox == create_plugin_node(<<"concat", "_priorbox">>, "ConcatV2")

concat_box_loc == create_plugin_node(<<"concat", "_box_loc">>, "FlattenConcat_TRT")

concat_box_conf == create_plugin_node(<<"concat", "_box_conf">>, "FlattenConcat_TRT")

OUTPUT_NAME == <<"NMS">>

entry(ns, plugin) == [namespace |-> ns, plugin |-> plugin]

\* mutant: "Postprocessor" is mapped to the wrong plugin node
namespace_plugin_map_wrong ==
    << entry(<<"MultipleGridAnchorGenerator">>, PriorBox),
       entry(<<"Postprocessor">>, Input),
       entry(<<"Preprocessor">>, Input),
       entry(<<"ToFloat">>, Input),
       entry(<<"image_tensor">>, Input),
       entry(<<"MultipleGridAnchorGenerator", "/", "Concatenate">>, concat_priorbox),
       entry(<<"MultipleGridAnchorGenerator", "/", "Identity">>, concat_priorbox),
       entry(<<"concat">>, concat_box_loc),
       entry(<<"concat", "_1">>, concat_box_conf) >>

\* the dict, in insertion order
namespace_plugin_map ==
    << entry(<<"MultipleGridAnchorGenerator">>, PriorBox),
       entry(<<"Postprocessor">>, NMS),
       entry(<<"Preprocessor">>, Input),
       entry(<<"ToFloat">>, Input),
       entry(<<"image_tensor">>, Input),
       entry(<<"MultipleGridAnchorGenerator", "/", "Concatenate">>, concat_priorbox),
       entry(<<"MultipleGridAnchorGenerator", "/", "Identity">>, concat_priorbox),
       entry(<<"concat">>, concat_box_loc),
       entry(<<"concat", "_1">>, concat_box_conf) >>

\* mutant: the outputs are removed together with their exclusive dependencies
remove_exclusive_dependencies_on == TRUE

\* the flag given to ssd_graph.remove
remove_exclusive_dependencies == FALSE

\* the namespace of node_name cut to the depth of namespace
node_namespace(node_name, namespace) ==
    LET parts == split(node_name)
        current_depth == Len(split(namespace))
    IN  slashjoin(SubSeq(parts, 1, Min(current_depth, Len(parts))))

RECURSIVE best_match_first(_, _, _, _)
\* mutant: the first namespace that matches wins, whatever its depth
best_match_first(node_name, map, i, best) ==
    IF i > Len(map) THEN best
    ELSE IF map[i].namespace = node_namespace(node_name, map[i].namespace) /\ best = 0
         THEN best_match_first(node_name, map, i + 1, i)
         ELSE best_match_first(node_name, map, i + 1, best)

RECURSIVE best_match(_, _, _, _)
\* the loop of get_plugin_node: the deepest namespace that is a path prefix
best_match(node_name, map, i, best) ==
    IF i > Len(map) THEN best
    ELSE LET namespace == map[i].namespace
             current_depth == Len(split(namespace))
             best_match_depth == IF best = 0 THEN -1
                                 ELSE Len(split(map[best].namespace))
         IN  IF namespace = node_namespace(node_name, namespace)
                /\ current_depth > best_match_depth
             THEN best_match(node_name, map, i + 1, i)
             ELSE best_match(node_name, map, i + 1, best)

\* index in map of the entry whose plugin absorbs node_name, 0 if none
get_plugin_node(node_name, map) == best_match(node_name, map, 1, 0)

RECURSIVE update_inputs(_, _, _)
\* inputs of a node that stays: references into a namespace become the plugin
update_inputs(inp, index, map) ==
    IF index > Len(inp) THEN inp
    ELSE LET m == get_plugin_node(inp[index], map)
             del == SubSeq(inp, 1, index - 1) \o SubSeq(inp, index + 1, Len(inp))
         IN  IF m = 0 THEN update_inputs(inp, index + 1, map)
             ELSE IF map[m].plugin.name \notin Range(del)
             THEN update_inputs(SubSeq(del, 1, index - 1) \o <<map[m].plugin.name>>
                                  \o SubSeq(del, index, Len(del)), index + 1, map)
             ELSE update_inputs(del, index, map)

RECURSIVE update_plugin_inputs(_, _, _, _)
\* inputs of a collapsed node move to its plugin: no self-loop, no duplicate
update_plugin_inputs(plugin_input, plugin_name, inp, map) ==
    IF inp = <<>> THEN plugin_input
    ELSE LET m == get_plugin_node(Head(inp), map)
             input_name == IF m = 0 THEN Head(inp) ELSE map[m].plugin.name
         IN  IF input_name # plugin_name /\ input_name \notin Range(plugin_input)
             THEN update_plugin_inputs(Append(plugin_input, input_name),
                                       plugin_name, Tail(inp), map)
             ELSE update_plugin_inputs(plugin_input, plugin_name, Tail(inp), map)

RECURSIVE collapse_loop(_, _, _, _)
\* one pass over the nodes: kept nodes with new inputs, plugins in order of use
collapse_loop(nodes, map, kept, plugins) ==
    IF nodes = <<>> THEN kept \o plugins
    ELSE LET node == Head(nodes)
             m == get_plugin_node(node.name, map)
         IN  IF m = 0
             THEN collapse_loop(Tail(nodes), map,
                      Append(kept, [node EXCEPT !.input = update_inputs(node.input, 1, map)]),
                      plugins)
             ELSE LET pname == map[m].plugin.name
                      at == {k \in 1..Len(plugins) : plugins[k].name = pname}
                  IN  IF at = {}
                      THEN collapse_loop(Tail(nodes), map, kept,
                               Append(plugins, [map[m].plugin EXCEPT !.input =
                                   update_plugin_inputs(map[m].plugin.input, pname,
                                                        node.input, map)]))
                      ELSE LET k == CHOOSE k \in at : TRUE
                           IN  collapse_loop(Tail(nodes), map, kept,
                                   [plugins EXCEPT ![k].input =
                                       update_plugin_inputs(plugins[k].input, pname,
                                                            node.input, map)])

\* DynamicGraph.collapse_namespaces(namespace_map)
collapse_namespaces(g, map) == collapse_loop(g, map, <<>>, <<>>)

\* nodes that have g.name among their inputs
consumers(g, name) == {n \in Range(g) : name \in Range(n.input)}

\* DynamicGraph.graph_outputs: the nodes nothing consumes
graph_outputs(g) == {n \in Range(g) : consumers(g, n.name) = {}}

RECURSIVE exclusive_closure(_, _)
\* the nodes removed with their exclusive dependencies
exclusive_closure(g, nodes) ==
    LET more == {n \in Range(g) \ nodes :
                    /\ consumers(g, n.name) # {}
                    /\ consumers(g, n.name) \subseteq nodes}
    IN  IF more = {} THEN nodes ELSE exclusive_closure(g, nodes \cup more)

RECURSIVE without(_, _)
without(g, nodes) ==
    IF g = <<>> THEN <<>>
    ELSE IF Head(g) \in nodes THEN without(Tail(g), nodes)
    ELSE <<Head(g)>> \o without(Tail(g), nodes)

\* DynamicGraph.remove(nodes, remove_exclusive_dependencies)
remove(g, nodes, cascade) ==
    without(g, IF cascade THEN exclusive_closure(g, nodes) ELSE nodes)

names(g) == {n.name : n \in Range(g)}

-----------------------------------------------------------------------------
(* Inputs *)

SUPPORTED == "ssd_inception_v2_coco_2017_11_17"

ModelNames == {SUPPORTED, "ssd_mobilenet_v1_coco_2017_11_17"}

\* values of PATHS.get_models_dir_path(): absolute, relative, nested, the root
ModelDirs == { <<"/", "b">>, <<"b">>, <<"/", "b", "/", "c">>, <<"/">> }

Cwds == { <<"/">>, <<"/", "c">> }

\* member names of the archives given to prepare_ssd_model
MemberNames ==
    { <<"c">>,                              \* c
      <<".">>,                              \* .
      <<".", ".">>,                         \* ..
      <<".", ".", "/", "b", "b">>,          \* ../bb
      <<".", ".", "/", "c">>,               \* ../c
      <<"/", "c">>,                         \* /c
      <<"/", "b", "/", "c">>,               \* /b/c
      <<"c", "/", ".", ".", "/", ".", ".">> \* c/../..
    }

Archives == UNION {[1..n -> MemberNames] : n \in 0..MaxMembers}

PathChars == {"/", ".", "b", "c"}

\* every member name of at most n characters
NamesUpTo(n) == UNION {[1..k -> PathChars] : k \in 1..n}

\* node names of the graphs
Universe ==
    << <<"image_tensor">>,
       <<"Preprocessor", "/", "foo">>,
       <<"ToFloat">>,
       <<"Conv">>,
       <<"MultipleGridAnchorGenerator", "/", "foo">>,
       <<"MultipleGridAnchorGenerator", "/", "Concatenate", "/", "foo">>,
       <<"concat">>,
       <<"concat", "_1">>,
       <<"Postprocessor", "/", "foo">>,
       <<"Postprocessor", "/", "bar">>,
       <<"detection_boxes">>,
       <<"concat", "_2">> >>

\* the numbers of S in increasing order
Sorted(S) == SelectSeq([i \in 1..Len(Universe) |-> i], LAMBDA i : i \in S)

\* the graph with the nodes S of Universe and an input p of c for <<c, p>> in E
GraphOver(S, E) ==
    LET idx == Sorted(S)
    IN  [k \in 1..Len(idx) |->
            LET ins == Sorted({p \in S : <<idx[k], p>> \in E})
            IN  [name |-> Universe[idx[k]],
                 op |-> "Const",
                 input |-> [j \in 1..Len(ins) |-> Universe[ins[j]]]]]

\* input references of an acyclic graph listed producers first
EdgeSets(S) ==
    {E \in SUBSET {e \in S \X S : e[1] > e[2]} : Cardinality(E) <= MaxEdges}

\* every such graph of at most n nodes and MaxEdges input references
GraphsUpTo(n) ==
    UNION { {GraphOver(S, E) : E \in EdgeSets(S)} :
            S \in {T \in SUBSET (1..Len(Universe)) : Cardinality(T) <= n} }

\* the j-th node name of the namespace key
NameIn(key, j) ==
    key \o (CASE j = 1 -> <<"/", "foo">>
              [] j = 2 -> <<"/", "bar">>
              [] j = 3 -> <<>>
              [] j = 4 -> <<"/", "foo", "/", "bar">>
              [] j = 5 -> <<"/", "bar", "/", "foo">>
              [] j = 6 -> <<"/", "foo", "/", "foo">>)

\* a graph of 8 nodes in the namespaces keys[1..3], sizes[k] of them in
\* keys[k], each reading the node listed before it, and 2 nodes outside every
\* namespace: "Conv" reads the last node of namespace p, "detection_boxes"
\* reads "Conv" and the first node of the next namespace
SyntheticGraph(keys, sizes, p) ==
    LET inside == [i \in 1..8 |->
                      IF i <= sizes[1] THEN NameIn(keys[1], i)
                      ELSE IF i <= sizes[1] + sizes[2] THEN NameIn(keys[2], i - sizes[1])
                      ELSE NameIn(keys[3], i - sizes[1] - sizes[2])]
        q == (p % 3) + 1
    IN  [i \in 1..8 |-> [name |-> inside[i], op |-> "Const",
                         input |-> IF i = 1 THEN <<>> ELSE <<inside[i - 1]>>]]
        \o << [name |-> <<"Conv">>, op |-> "Const",
               input |-> <<NameIn(keys[p], sizes[p])>>],
              [name |-> <<"detection_boxes">>, op |-> "Identity",
               input |-> <<<<"Conv">>, NameIn(keys[q], 1)>>] >>

\* the 10-node graphs over every choice of three keys of map
SyntheticGraphs(map) ==
    LET n == Len(map)
        triples == {t \in (1..n) \X (1..n) \X (1..n) : t[1] < t[2] /\ t[2] < t[3]}
        splits == {z \in (1..6) \X (1..6) \X (1..6) : z[1] + z[2] + z[3] = 8}
    IN  {SyntheticGraph([k \in 1..3 |-> map[t[k]].namespace], z, p) :
            t \in triples, z \in splits, p \in 1..3}

\* frozen graphs that prepare_ssd_model may find at ssd_pb_path
GraphsOnDisk ==
    { GraphOver({1, 2, 4, 9, 11}, {<<2, 1>>, <<4, 2>>, <<9, 4>>, <<11, 9>>}),
      GraphOver({1, 4, 11}, {<<4, 1>>, <<11, 4>>}),
      <<>> }

-----------------------------------------------------------------------------
(* prepare_ssd_model *)

STEP_ORDER ==
    <<"mkdir", "download", "extract", "delete", "load", "collapse", "prune", "serialize">>

Raise(exc) == pc' = "failed" /\ error' = exc

Go(next) == pc' = next /\ error' = error

Step(name) == steps' = Append(steps, name)

\* mutant: the model name is not checked before download_model
CheckModelNameNever ==
    /\ pc = "start"
    /\ Go("mkdir")
    /\ UNCHANGED <<model_name, cwd, model_dir, dir_exists, archive, tar, extracted,
                   steps, loaded, graph, removed, uff_written>>

\* the guard at the top of prepare_ssd_model
CheckModelName ==
    /\ pc = "start"
    /\ IF model_name # SUPPORTED THEN Raise("NotImplementedError") ELSE Go("mkdir")
    /\ UNCHANGED <<model_name, cwd, model_dir, dir_exists, archive, tar, extracted,
                   steps, loaded, graph, removed, uff_written>>

\* maybe_mkdir(model_dir)
MaybeMkdir ==
    /\ pc = "mkdir"
    /\ Step("mkdir")
    /\ dir_exists' = TRUE
    /\ Go("download")
    /\ UNCHANGED <<model_name, cwd, model_dir, archive, tar, extracted,
                   loaded, graph, removed, uff_written>>

\* download_file(model_url, model_archive_path): open(.., "wb"), then the request
DownloadFile ==
    /\ pc = "download"
    /\ Step("download")
    /\ \/ /\ archive' = "partial"
          /\ tar' = tar
          /\ Raise("RequestException")
       \/ /\ archive' = "corrupt"
          /\ tar' = tar
          /\ Go("extract")
       \/ /\ archive' = "complete"
          /\ tar' \in Archives
          /\ Go("extract")
    /\ UNCHANGED <<model_name, cwd, model_dir, dir_exists, extracted,
                   loaded, graph, removed, uff_written>>

\* mutant: a failed extraction deletes the archive
ExtractWithCleanup ==
    /\ pc = "extract"
    /\ Step("extract")
    /\ \/ /\ archive = "corrupt"
          /\ extracted' = extracted
          /\ archive' = "absent"
          /\ Raise("ReadError")
       \/ /\ archive = "complete"
          /\ LET r == safe_extract(model_dir, tar, cwd)
             IN  /\ extracted' = r.written
                 /\ IF r.raised
                    THEN archive' = "absent" /\ Raise("PathTraversal")
                    ELSE archive' = archive /\ Go("delete")
    /\ UNCHANGED <<model_name, cwd, model_dir, dir_exists, tar,
                   loaded, graph, removed, uff_written>>

\* tarfile.open(model_archive_path) and safe_extract(tar, path=model_dir)
Extract ==
    /\ pc = "extract"
    /\ Step("extract")
    /\ \/ /\ archive = "corrupt"
          /\ extracted' = extracted
          /\ Raise("ReadError")
       \/ /\ archive = "complete"
          /\ LET r == safe_extract(model_dir, tar, cwd)
             IN  /\ extracted' = r.written
                 /\ IF r.raised THEN Raise("PathTraversal") ELSE Go("delete")
    /\ UNCHANGED <<model_name, cwd, model_dir, dir_exists, archive, tar,
                   loaded, graph, removed, uff_written>>

\* os.remove(model_archive_path)
RemoveArchive ==
    /\ pc = "delete"
    /\ Step("delete")
    /\ archive' = "absent"
    /\ Go("load")
    /\ UNCHANGED <<model_name, cwd, model_dir, dir_exists, tar, extracted,
                   loaded, graph, removed, uff_written>>

\* gs.DynamicGraph(model_path)
LoadGraph ==
    /\ pc = "load"
    /\ Step("load")
    /\ \/ /\ loaded' \in GraphsOnDisk
          /\ graph' = loaded'
          /\ Go("collapse")
       \/ /\ UNCHANGED <<loaded, graph>>
          /\ Raise("IOError")
    /\ UNCHANGED <<model_name, cwd, model_dir, dir_exists, archive, tar, extracted,
                   removed, uff_written>>

\* ssd_graph.collapse_namespaces(namespace_plugin_map)
CollapseNamespaces ==
    /\ pc = "collapse"
    /\ Step("collapse")
    /\ graph' = collapse_namespaces(graph, namespace_plugin_map)
    /\ Go("prune")
    /\ UNCHANGED <<model_name, cwd, model_dir, dir_exists, archive, tar, extracted,
                   loaded, removed, uff_written>>

\* ssd_graph.remove(ssd_graph.graph_outputs, remove_exclusive_dependencies=False)
RemoveOutputs ==
    /\ pc = "prune"
    /\ Step("prune")
    /\ removed' = graph_outputs(graph)
    /\ graph' = remove(graph, graph_outputs(graph), remove_exclusive_dependencies)
    /\ Go("serialize")
    /\ UNCHANGED <<model_name, cwd, model_dir, dir_exists, archive, tar, extracted,
                   loaded, uff_written>>

\* uff.from_tensorflow(graph_def, [ModelData.OUTPUT_NAME], output_filename=...)
Serialize ==
    /\ pc = "serialize"
    /\ Step("serialize")
    /\ IF OUTPUT_NAME \in names(graph)
       THEN uff_written' = TRUE /\ Go("done")
       ELSE uff_written' = uff_written /\ Raise("UffException")
    /\ UNCHANGED <<model_name, cwd, model_dir, dir_exists, archive, tar, extracted,
                   loaded, graph, removed>>

Init ==
    /\ pc = "start"
    /\ model_name \in ModelNames
    /\ cwd \in Cwds
    /\ model_dir \in ModelDirs
    /\ dir_exists \in BOOLEAN
    /\ archive = "absent"
    /\ tar = <<>>
    /\ extracted = <<>>
    /\ error = "none"
    /\ steps = <<>>
    /\ loaded = <<>>
    /\ graph = <<>>
    /\ removed = {}
    /\ uff_written = FALSE

Next ==
    \/ CheckModelName
    \/ MaybeMkdir
    \/ DownloadFile
    \/ Extract
    \/ RemoveArchive
    \/ LoadGraph
    \/ CollapseNamespaces
    \/ RemoveOutputs
    \/ Serialize

Spec == Init /\ [][Next]_vars

\* safe_extract on one-member archives of every name of at most MaxNameLen characters
InitPath ==
    /\ pc = "extract"
    /\ model_name = SUPPORTED
    /\ cwd \in Cwds
    /\ model_dir \in ModelDirs
    /\ dir_exists = TRUE
    /\ \/ archive = "complete" /\ tar \in {<<n>> : n \in NamesUpTo(MaxNameLen)}
       \/ archive = "corrupt" /\ tar = <<>>
    /\ extracted = <<>>
    /\ error = "none"
    /\ steps = <<"mkdir", "download">>
    /\ loaded = <<>>
    /\ graph = <<>>
    /\ removed = {}
    /\ uff_written = FALSE

NextPath == Extract

SpecPath == InitPath /\ [][NextPath]_vars

\* a run that starts at the rewrite of one of graphs
GraphRun(graphs) ==
    /\ pc = "collapse"
    /\ model_name = SUPPORTED
    /\ cwd = <<"/">>
    /\ model_dir = <<"/", "b">>
    /\ dir_exists = TRUE
    /\ archive = "absent"
    /\ tar = <<>>
    /\ extracted = <<>>
    /\ error = "none"
    /\ steps = <<"mkdir", "download", "extract", "delete", "load">>
    /\ loaded \in graphs
    /\ graph = loaded
    /\ removed = {}
    /\ uff_written = FALSE

\* the rewrite of every graph of at most MaxGraphNodes nodes
InitGraph == GraphRun(GraphsUpTo(MaxGraphNodes))

NextGraph ==
    \/ CollapseNamespaces
    \/ RemoveOutputs
    \/ Serialize

SpecGraph == InitGraph /\ [][NextGraph]_vars

\* the rewrite of the graphs of at most MaxOrderNodes nodes, which are also
\* collapsed under every order of the mapping entries
InitOrder == GraphRun(GraphsUpTo(MaxOrderNodes))

SpecOrder == InitOrder /\ [][NextGraph]_vars

\* the rewrite of the synthetic 10-node graphs
InitEndToEnd == GraphRun(SyntheticGraphs(namespace_plugin_map))

SpecEndToEnd == InitEndToEnd /\ [][NextGraph]_vars

-----------------------------------------------------------------------------
(* Properties of the extraction and of prepare_ssd_model *)

\* the non-empty components of a path
components(p) == SelectSeq(split(p), LAMBDA c : c # <<>>)

\* p is root or lies below it in the directory tree (both absolute, normalised)
IsDescendantOrSelf(root, p) ==
    /\ initial_slashes(root) = initial_slashes(p)
    /\ startswith(components(p), components(root))

StrictlyInside(root, p) ==
    IsDescendantOrSelf(root, p) /\ components(p) # components(root)

AbsModelDir == abspath(model_dir, cwd)

Rejected == {i \in 1..Len(tar) : ~member_ok(model_dir, tar[i], cwd)}

\* C1: once safe_extract has run on an archive with at least one member that
\* fails is_within_directory, the run has ended with the path-traversal error
\* and no member has been written, not even one that precedes the offender.
C1_AllOrNothing ==
    ("extract" \in Range(steps) /\ Rejected # {})
        => (pc = "failed" /\ error = "PathTraversal" /\ extracted = <<>>)

C1_Witness ==
    /\ error = "PathTraversal"
    /\ Len(tar) = 2
    /\ Rejected = {2}
    /\ StrictlyInside(AbsModelDir, destination(model_dir, tar[1], cwd))

\* C2: every member written to disk has a resolved destination that is the
\* extraction root or a descendant of it.
C2_Containment ==
    \A i \in 1..Len(extracted) : IsDescendantOrSelf(AbsModelDir, extracted[i])

\* C3: with an unsupported model name the only step ever taken is the raise of
\* the unsupported-model error, and it changes nothing else: no directory, no
\* archive file, no extraction, no graph, no UFF file, no recorded step.
C3_UnsupportedFirst ==
    [][model_name # SUPPORTED =>
          /\ pc' = "failed"
          /\ error' = "NotImplementedError"
          /\ UNCHANGED <<dir_exists, archive, tar, extracted, steps,
                         loaded, graph, removed, uff_written>>]_vars

C3_Witness ==
    /\ model_name # SUPPORTED
    /\ pc = "failed"
    /\ error = "NotImplementedError"
    /\ steps = <<>>

\* C4: the steps taken are always an initial part of the fixed order (so each
\* happens at most once, after all earlier ones); a run ends at the step that
\* failed; after a failed download or extraction the archive file still exists,
\* the directory is still there and no graph was loaded or serialized.
C4_StepOrder ==
    /\ startswith(STEP_ORDER, steps)
    /\ (error # "none") <=> (pc = "failed")
    /\ pc = "done" => steps = STEP_ORDER
    /\ error = "RequestException" => steps = <<"mkdir", "download">>
    /\ error \in {"ReadError", "PathTraversal"} => steps = <<"mkdir", "download", "extract">>
    /\ error \in {"RequestException", "ReadError", "PathTraversal"} =>
          /\ archive # "absent"
          /\ dir_exists
          /\ graph = <<>>
          /\ ~uff_written

C4_Witness ==
    /\ error = "PathTraversal"
    /\ archive = "complete"
    /\ steps = <<"mkdir", "download", "extract">>

\* C9: a member is accepted exactly when the absolute path of the directory is
\* a character-wise prefix of the absolute path of directory joined with the
\* member name; an accepted one-member archive is extracted to that path, and a
\* member strictly inside the directory is always accepted.
C9_PrefixTest ==
    (pc # "extract" /\ archive = "complete") =>
        LET t == destination(model_dir, tar[1], cwd)
        IN  /\ (error = "none") <=> startswith(t, AbsModelDir)
            /\ error = "none" => (pc = "delete" /\ extracted = <<t>>)
            /\ error # "none" => (error = "PathTraversal" /\ extracted = <<>>)
            /\ StrictlyInside(AbsModelDir, t) => error = "none"

\* directory /b, destination /bc: a sibling whose name extends the directory's
C9_Witness ==
    /\ pc = "delete"
    /\ model_dir = <<"/", "b">>
    /\ extracted = << <<"/", "b", "c">> >>
    /\ ~IsDescendantOrSelf(AbsModelDir, extracted[1])

-----------------------------------------------------------------------------
(* Properties of the graph rewrite *)

\* name is key or lies under it as a qualified prefix
UnderKey(name, key) == name = key \/ startswith(name, key \o <<"/">>)

CoveringEntries(name) ==
    {e \in Range(namespace_plugin_map) : UnderKey(name, e.namespace)}

Covered(name) == CoveringEntries(name) # {}

\* the entry with the longest key that covers name
DeepestEntry(name) ==
    CHOOSE e \in CoveringEntries(name) :
        \A f \in CoveringEntries(name) : Len(f.namespace) <= Len(e.namespace)

Replacement(name) == DeepestEntry(name).plugin.name

\* what a reference to name refers to after the collapse
NewRef(name) == IF Covered(name) THEN Replacement(name) ELSE name

NodesNamed(g, name) == {n \in Range(g) : n.name = name}

OutputNames(g) == {n.name : n \in graph_outputs(g)}

\* no covered node is left, and every node left is an uncovered original node
\* (same name, same operation) or a replacement node
CollapsedAway ==
    /\ \A n \in Range(graph) : ~Covered(n.name)
    /\ names(graph) = {NewRef(x.name) : x \in Range(loaded)}
    /\ \A x \in Range(loaded) : ~Covered(x.name) =>
          \E n \in Range(graph) : n.name = x.name /\ n.op = x.op

\* C5 (amended): after the collapse no node under a mapping key remains; the
\* nodes whose deepest covering key is k are represented by the one node named
\* by the value of k ("NMS" for "Postprocessor"); every reference to a collapsed
\* node is a reference to its replacement; uncovered nodes keep name and op.
C5_CollapseRewires ==
    pc = "prune" =>
        /\ CollapsedAway
        /\ \A x \in Range(loaded) : Covered(x.name) =>
              /\ Cardinality(NodesNamed(graph, Replacement(x.name))) = 1
              /\ \A n \in NodesNamed(graph, Replacement(x.name)) :
                    /\ n.op = DeepestEntry(x.name).plugin.op
                    /\ \A i \in Range(x.input) :
                          NewRef(i) # n.name => NewRef(i) \in Range(n.input)
        /\ \A x \in Range(loaded) : UnderKey(x.name, <<"Postprocessor">>) =>
              \E n \in Range(graph) : n.name = <<"NMS">> /\ n.op = "NMS_TRT"
        /\ \A x \in Range(loaded) : ~Covered(x.name) =>
              \A n \in NodesNamed(graph, x.name) :
                  Range(n.input) = {NewRef(i) : i \in Range(x.input)}

\* "Postprocessor/foo" and "Postprocessor/bar", both referenced from outside
C5_Witness ==
    /\ pc = "prune"
    /\ {<<"Postprocessor", "/", "foo">>, <<"Postprocessor", "/", "bar">>} \subseteq names(loaded)
    /\ \E x \in Range(loaded) :
          /\ ~Covered(x.name)
          /\ Range(x.input) = {<<"Postprocessor", "/", "foo">>, <<"Postprocessor", "/", "bar">>}
          /\ \E n \in NodesNamed(graph, x.name) : n.input = << <<"NMS">> >>

\* C5 as stated: the nodes under a key, whichever other key covers them too,
\* are represented by the node named by that key's value.
C5_Original ==
    pc = "prune" =>
        /\ CollapsedAway
        /\ \A x \in Range(loaded) : \A e \in CoveringEntries(x.name) :
              Cardinality(NodesNamed(graph, e.plugin.name)) = 1
        /\ \A x \in Range(loaded) : ~Covered(x.name) =>
              \A n \in NodesNamed(graph, x.name) : \A i \in Range(x.input) :
                  \A e \in CoveringEntries(i) : e.plugin.name \in Range(n.input)

\* the registered outputs of the collapsed graph g leave NMS behind as the only
\* node without a consumer
LeavesOnlyNMS(g) ==
    /\ OUTPUT_NAME \in names(g)
    /\ consumers(g, OUTPUT_NAME) # {}
    /\ consumers(g, OUTPUT_NAME) \subseteq graph_outputs(g)
    /\ \A n \in Range(g) \ graph_outputs(g) :
          n.name # OUTPUT_NAME => ~(consumers(g, n.name) \subseteq graph_outputs(g))

C8_PruneConfined ==
    [][pc = "prune" =>
          /\ removed' = graph_outputs(graph)
          /\ Range(graph') = Range(graph) \ removed'
          /\ Len(graph') = Len(graph) - Cardinality(removed')
          /\ graph_outputs(graph') \cap removed' = {}
          /\ \A n \in removed' : \A i \in Range(n.input) :
                i \in names(graph) => i \in names(graph')
          /\ removed' = {} => graph' = graph]_vars

\* output set {"NMS"}: the nodes NMS read are still in the graph
C8_Witness ==
    /\ pc = "serialize"
    /\ {n.name : n \in removed} = {<<"NMS">>}
    /\ \A n \in removed : n.input # <<>> /\ Range(n.input) \subseteq names(graph)

Rotate(m, k) == [i \in 1..Len(m) |-> m[((i + k - 1) % Len(m)) + 1]]

Reverse(m) == [i \in 1..Len(m) |-> m[Len(m) + 1 - i]]

\* orders of the mapping entries: every entry comes first in one of them and
\* every two entries occur in both relative orders
MapOrders ==
    LET rot == {Rotate(namespace_plugin_map, k) : k \in 0..(Len(namespace_plugin_map) - 1)}
    IN  rot \cup {Reverse(m) : m \in rot}

\* C10: collapsing with the mapping entries in any of the orders of MapOrders
\* gives the nodes (names, operations, input references) that the order of
\* the source gives, and every covered node ends in exactly one replacement.
C10_OrderIndependent ==
    pc = "prune" =>
        /\ \A m \in MapOrders : Range(collapse_namespaces(loaded, m)) = Range(graph)
        /\ \A x \in Range(loaded) : Covered(x.name) =>
              /\ x.name \notin names(graph)
              /\ Cardinality(NodesNamed(graph, Replacement(x.name))) = 1

\* one node under each of two overlapping keys, one reading the other
C10_Witness ==
    /\ pc = "prune"
    /\ names(loaded) = {<<"MultipleGridAnchorGenerator", "/", "Concatenate", "/", "foo">>,
                        <<"MultipleGridAnchorGenerator", "/", "foo">>}
    /\ names(graph) = {<<"concat", "_priorbox">>, <<"GridAnchor">>}
    /\ \E n \in Range(graph) : n.input # <<>>

\* keys of the mapping whose values are one and the same plugin node
SharedGroups ==
    { {<<"Preprocessor">>, <<"ToFloat">>, <<"image_tensor">>},
      {<<"MultipleGridAnchorGenerator", "/", "Concatenate">>,
       <<"MultipleGridAnchorGenerator", "/", "Identity">>} }

\* the deepest keys covering the nodes of g
SpannedKeys(g) == {DeepestEntry(x.name).namespace : x \in {y \in Range(g) : Covered(y.name)}}

Unmapped(g) == {x \in Range(g) : ~Covered(x.name)}

TenNodeCase ==
    /\ Len(loaded) = 10
    /\ Cardinality(SpannedKeys(loaded)) = 3
    /\ Cardinality(Unmapped(loaded)) = 2

FiveNodes ==
    /\ error = "none"
    /\ Len(graph) = 5
    /\ Cardinality(names(graph) \ names(loaded)) = 3
    /\ \A x \in Unmapped(loaded) : \E n \in Range(graph) :
          /\ n.name = x.name
          /\ n.op = x.op
          /\ Range(n.input) = {NewRef(i) : i \in Range(x.input)}

\* C6 (amended): a graph of 10 nodes spanning three mapped namespaces, no two
\* of which share their replacement node, plus two unmapped nodes collapses to
\* 3 replacement nodes and the 2 unmapped nodes, 5 in all, the references of
\* the unmapped nodes rewired; the six keys without a node add nothing.
C6_TenToFive ==
    (pc = "prune" /\ TenNodeCase
        /\ \A G \in SharedGroups : Cardinality(G \cap SpannedKeys(loaded)) <= 1)
    => FiveNodes

C6_Witness ==
    /\ pc = "prune"
    /\ SpannedKeys(loaded) = {<<"MultipleGridAnchorGenerator">>,
                              <<"MultipleGridAnchorGenerator", "/", "Concatenate">>,
                              <<"Postprocessor">>}
    /\ Len(loaded) = 10
    /\ names(graph) = {<<"GridAnchor">>, <<"concat", "_priorbox">>, <<"NMS">>,
                       <<"Conv">>, <<"detection_boxes">>}

\* C6 as stated: any three of the mapped namespaces give 3 replacement nodes.
C6_Original == (pc = "prune" /\ TenNodeCase) => FiveNodes

====
